---- MODULE Spec2Model ----
(***************************************************************************)
(* Category5: the Atmosphere window ordering ("skiplist") and focus code.  *)
(*                                                                         *)
(* Two revisions of the skiplist module are in the tree:                   *)
(*   cur : src/category5/atmosphere/skiplist.rs                            *)
(*   old : compositor/src/category5/utils/atmosphere/skiplist.rs           *)
(* The variable rev says which one is built; every operation is modelled   *)
(* once per revision where the two differ.                                 *)
(*                                                                         *)
(* An Atmosphere is modelled as a record                                   *)
(*   next, prev  : the skiplist_next / skiplist_prev window properties     *)
(*   parent, top : the parent_window / top_child window properties         *)
(*   wf, sf      : the win_focus (old: focus) / surf_focus global props    *)
(*   gr, rs      : the grabbed / resizing global props                     *)
(*   ev          : notifications sent to clients, oldest first             *)
(*   tr          : the property writes and notifications of the operation  *)
(*                 that is running, in the order they are made             *)
(* Option<WindowId> is a number: None is 0, Some(w) is w.                  *)
(*                                                                         *)
(* Three specifications share the variables:                               *)
(*   Spec      : the window order and focus operations of skiplist.rs      *)
(*   SpecInput : pointer buttons handled by input/mod.rs                   *)
(*   SpecStore : the accessors atmos_gen generates for a property enum     *)
(***************************************************************************)
EXTENDS Integers, Sequences, FiniteSets, TLC

\* Largest window id that is ever minted.
NumWin == 3

\* Longest sequence of ordering and focus operations that is explored.
MaxOps == 4

\* The same for behaviours of the older revision taken one operation deeper.
MaxOldOps == 5

\* Option::None for Option<WindowId>.
None == 0

WindowId == 1..NumWin

VARIABLES
    rev,            \* "cur" or "old": the revision of skiplist.rs
    windows,        \* window ids that are registered
    skiplist_next,  \* WindowProperty skiplist_next
    skiplist_prev,  \* WindowProperty skiplist_prev
    parent_window,  \* WindowProperty parent_window
    top_child,      \* WindowProperty top_child
    win_focus,      \* GlobalProperty win_focus (old: focus)
    surf_focus,     \* GlobalProperty surf_focus
    grabbed,        \* GlobalProperty grabbed
    resizing,       \* GlobalProperty resizing
    ecs,            \* the property store seen through generated accessors
    client_ids,     \* per client id: "free", "connected" or "destroyed"
    i_resize_diff,  \* Input: pointer movement batched for the resize
    i_pointer_focus, \* Input: the window the pointer is over, or None
    hist,           \* observer: keyboard pairing and removed windows
    th_params,      \* Thundr: the RecordParams of the recording in progress
    viewport,       \* a thundr Viewport
    last,           \* the operation that returned last, with the state it started in
    prior,          \* the operation before that
    nops            \* how many operations have returned

vars == <<rev, windows, skiplist_next, skiplist_prev, parent_window,
          top_child, win_focus, surf_focus, grabbed, resizing, ecs,
          client_ids, i_resize_diff, i_pointer_focus, hist, th_params,
          viewport, last, prior, nops>>

\* The Atmosphere as one value, with an empty notification log.
Atmos ==
    [next |-> skiplist_next, prev |-> skiplist_prev,
     parent |-> parent_window, top |-> top_child,
     wf |-> win_focus, sf |-> surf_focus,
     gr |-> grabbed, rs |-> resizing, ev |-> << >>, tr |-> << >>]

----------------------------------------------------------------------------
(* Generated property accessors (atmos_gen) *)

\* One sub-step of an operation: the call `what`, made for window id.
Log(a, what, id) == [a EXCEPT !.tr = Append(@, <<what, id>>)]

get_skiplist_next(a, id) == a.next[id]
get_skiplist_prev(a, id) == a.prev[id]
get_top_child(a, id) == a.top[id]
get_parent_window(a, id) == a.parent[id]
get_win_focus(a) == a.wf

set_skiplist_next(a, id, v) ==
    Log([a EXCEPT !.next[id] = v], "set_skiplist_next", id)
set_skiplist_prev(a, id, v) ==
    Log([a EXCEPT !.prev[id] = v], "set_skiplist_prev", id)
set_top_child(a, id, v) == Log([a EXCEPT !.top[id] = v], "set_top_child", id)
set_parent_window(a, id, v) ==
    Log([a EXCEPT !.parent[id] = v], "set_parent_window", id)
set_win_focus(a, v) == Log([a EXCEPT !.wf = v], "set_win_focus", v)
set_surf_focus(a, v) == Log([a EXCEPT !.sf = v], "set_surf_focus", v)
get_grabbed(a) == a.gr
set_grabbed(a, v) == Log([a EXCEPT !.gr = v], "set_grabbed", v)
get_resizing(a) == a.rs
set_resizing(a, v) == Log([a EXCEPT !.rs = v], "set_resizing", v)

\* Input::keyboard_enter / Input::keyboard_leave: the notification sink.
keyboard_enter(a, id) ==
    Log([a EXCEPT !.ev = Append(@, <<"enter", id>>)], "keyboard_enter", id)
keyboard_leave(a, id) ==
    Log([a EXCEPT !.ev = Append(@, <<"leave", id>>)], "keyboard_leave", id)

\* The focus the iterators and the old revision read.
get_window_in_focus(a) == a.wf

\* The root of a subsurface stack: None for a window without a parent,
\* otherwise the topmost ancestor.
RECURSIVE Ancestor(_, _, _)
Ancestor(a, id, fuel) ==
    IF a.parent[id] = None \/ fuel = 0 THEN id
    ELSE Ancestor(a, a.parent[id], fuel - 1)

get_root_window(a, id) ==
    IF a.parent[id] = None THEN None ELSE Ancestor(a, id, NumWin)

\* anc is the parent of id, or the parent of its parent, and so on.
RECURSIVE HasAncestor(_, _, _, _)
HasAncestor(a, id, anc, fuel) ==
    IF a.parent[id] = None \/ fuel = 0 THEN FALSE
    ELSE a.parent[id] = anc \/ HasAncestor(a, a.parent[id], anc, fuel - 1)

----------------------------------------------------------------------------
(* skiplist.rs, current revision *)

\* skiplist_remove_window with a fault: id's own next is cleared, its prev
\* is left as it was.
skiplist_remove_window_halfclear(a, id) ==
    LET next == get_skiplist_next(a, id)
        prev == get_skiplist_prev(a, id)
        a1 == IF prev # None THEN set_skiplist_next(a, prev, next) ELSE a
        a2 == IF next # None THEN set_skiplist_prev(a1, next, prev) ELSE a1
    IN set_skiplist_next(a2, id, None)

\* skiplist_remove_window with a change: the links of the removed window
\* are cleared as well.
skiplist_remove_window_clearown(a, id) ==
    LET next == get_skiplist_next(a, id)
        prev == get_skiplist_prev(a, id)
        a1 == IF prev # None THEN set_skiplist_next(a, prev, next) ELSE a
        a2 == IF next # None THEN set_skiplist_prev(a1, next, prev) ELSE a1
    IN set_skiplist_prev(set_skiplist_next(a2, id, None), id, None)

skiplist_remove_window(a, id) ==
    LET next == get_skiplist_next(a, id)
        prev == get_skiplist_prev(a, id)
        a1 == IF prev # None THEN set_skiplist_next(a, prev, next) ELSE a
        a2 == IF next # None THEN set_skiplist_prev(a1, next, prev) ELSE a1
    IN a2

\* skiplist_place_above with a fault: the predecessor of target is not
\* pointed at id.
skiplist_place_above_nolink(a, id, target) ==
    LET a1 == skiplist_remove_window(a, id)
        prev == get_skiplist_prev(a1, target)
        a3 == set_skiplist_prev(a1, target, id)
        a4 == set_skiplist_prev(a3, id, prev)
    IN set_skiplist_next(a4, id, target)

skiplist_place_above(a, id, target) ==
    LET a1 == skiplist_remove_window(a, id)
        prev == get_skiplist_prev(a1, target)
        a2 == IF prev # None THEN set_skiplist_next(a1, prev, id) ELSE a1
        a3 == set_skiplist_prev(a2, target, id)
        a4 == set_skiplist_prev(a3, id, prev)
    IN set_skiplist_next(a4, id, target)

skiplist_place_below(a, id, target) ==
    LET a1 == skiplist_remove_window(a, id)
        next == get_skiplist_next(a1, target)
        a2 == IF next # None THEN set_skiplist_prev(a1, next, id) ELSE a1
        a3 == set_skiplist_next(a2, target, id)
        a4 == set_skiplist_prev(a3, id, target)
    IN set_skiplist_next(a4, id, next)

\* focus_on(Some(id)), the branch taken when update_app is set.
\* Line 114 names prev_focus, which is prev_win_focus = Some(prev).
focus_on_update_app(a, id, prev) ==
    LET a1 == set_win_focus(a, id)
        a2 == skiplist_remove_window(a1, id)
        a3 == set_skiplist_prev(a2, prev, id)
        a4 == set_skiplist_next(a3, id, prev)
        a5 == set_skiplist_prev(a4, id, None)
    IN keyboard_leave(a5, prev)

\* focus_on with a fault: focus_on(None) clears the surface focus only.
focus_on_keepfocus(a, win) ==
    IF win # None THEN
        LET id == win
            prev == get_win_focus(a)
            root == get_root_window(a, id)
            bail == prev # None /\ root # None /\ root = prev
            update_app == prev # None /\
                          IF root # None THEN root # prev ELSE prev # id
            a1 == IF update_app THEN focus_on_update_app(a, id, prev) ELSE a
        IN IF bail THEN a
           ELSE keyboard_enter(set_surf_focus(a1, win), id)
    ELSE set_surf_focus(a, None)

\* focus_on with a change: a click inside the focused window's own
\* subsurface stack is not short-circuited, the enter is sent again.
focus_on_nobail(a, win) ==
    IF win # None THEN
        LET id == win
            prev == get_win_focus(a)
            root == get_root_window(a, id)
            update_app == prev # None /\
                          IF root # None THEN root # prev ELSE prev # id
            a1 == IF update_app THEN focus_on_update_app(a, id, prev) ELSE a
        IN keyboard_enter(set_surf_focus(a1, win), id)
    ELSE set_surf_focus(set_win_focus(a, None), None)

focus_on(a, win) ==
    IF win # None THEN
        LET id == win
            prev == get_win_focus(a)
            root == get_root_window(a, id)
            bail == prev # None /\ root # None /\ root = prev
            update_app == prev # None /\
                          IF root # None THEN root # prev ELSE prev # id
            a1 == IF update_app THEN focus_on_update_app(a, id, prev) ELSE a
        IN IF bail THEN a
           ELSE keyboard_enter(set_surf_focus(a1, win), id)
    ELSE set_surf_focus(set_win_focus(a, None), None)

add_new_top_subsurf(a, parent, win) ==
    LET a1 == set_parent_window(a, win, parent)
        old_top == get_top_child(a1, parent)
        a2 == IF old_top # None THEN skiplist_place_above(a1, win, old_top)
              ELSE a1
    IN set_top_child(a2, parent, win)

----------------------------------------------------------------------------
(* skiplist.rs, older revision *)

skiplist_remove_window_old(a, id) ==
    LET next == get_skiplist_next(a, id)
        prev == get_skiplist_prev(a, id)
        a1 == IF prev # None THEN set_skiplist_next(a, prev, next) ELSE a
        a2 == IF next # None THEN set_skiplist_prev(a1, next, prev) ELSE a1
        focus == get_window_in_focus(a2)
    IN IF focus # None /\ focus = id THEN set_win_focus(a2, next) ELSE a2

skiplist_place_above_old(a, id, target) ==
    LET a1 == skiplist_remove_window_old(a, id)
        prev == get_skiplist_prev(a1, target)
        a2 == IF prev # None THEN set_skiplist_next(a1, prev, id) ELSE a1
        a3 == set_skiplist_prev(a2, target, id)
        a4 == set_skiplist_prev(a3, id, prev)
    IN set_skiplist_next(a4, id, target)

skiplist_place_below_old(a, id, target) ==
    LET a1 == skiplist_remove_window_old(a, id)
        next == get_skiplist_next(a1, target)
        a2 == IF next # None THEN set_skiplist_prev(a1, next, id) ELSE a1
        a3 == set_skiplist_next(a2, target, id)
        a4 == set_skiplist_prev(a3, id, target)
    IN set_skiplist_next(a4, id, next)

focus_on_old(a, win) ==
    IF win # None THEN
        LET id == win
            prev_focus == get_window_in_focus(a)
            a1 == IF prev_focus # None
                  THEN set_skiplist_prev(keyboard_leave(a, prev_focus),
                                         prev_focus, win)
                  ELSE a
            a2 == keyboard_enter(a1, id)
            a3 == skiplist_remove_window_old(a2, id)
            a4 == set_skiplist_next(a3, id, prev_focus)
            a5 == set_skiplist_prev(a4, id, None)
        IN IF prev_focus # None /\ prev_focus = id THEN a
           ELSE set_win_focus(a5, win)
    ELSE set_win_focus(a, win)

----------------------------------------------------------------------------
(* The visible-window iterator *)

\* VisibleWindowIterator::next with a fault: the cursor is advanced before
\* the node is captured.
vwi_next_advancefirst(a, cur) ==
    LET nxt == IF cur # None THEN get_skiplist_next(a, cur) ELSE None
    IN [ret |-> nxt, cur |-> nxt]

\* VisibleWindowIterator::next on an iterator whose vwi_cur is cur: the
\* item returned and the new vwi_cur (take() leaves None behind).
vwi_next(a, cur) ==
    [ret |-> cur,
     cur |-> IF cur # None THEN get_skiplist_next(a, cur) ELSE None]

\* VisibleWindowIterator::next called until it returns None, or, when the
\* links loop, until fuel items were yielded.
RECURSIVE Iterate(_, _, _)
Iterate(a, cur, fuel) ==
    LET r == vwi_next(a, cur)
    IN IF r.ret = None \/ fuel = 0 THEN << >>
       ELSE <<r.ret>> \o Iterate(a, r.cur, fuel - 1)

\* One more item than there are windows: a longer result shows a loop.
IterFuel == NumWin + 1

visible_windows(a) == Iterate(a, get_window_in_focus(a), IterFuel)
visible_subsurfaces(a, id) == Iterate(a, get_top_child(a, id), IterFuel)

----------------------------------------------------------------------------
(* input/mod.rs: pointer button handling *)

\* ButtonState of a Click.
ButtonState == {"Pressed", "Released"}

\* wl_pointer.button sent to the pointers of the seat that owns window id.
pointer_button(a, id) ==
    Log([a EXCEPT !.ev = Append(@, <<"button", id>>)], "pointer_button", id)

\* The root window that holds the window focus.
get_root_win_in_focus(a) == a.wf

\* handle_click_on_window, the branch for a window hit.id under the cursor.
\* hit.edge: point_is_on_window_edge is not ResizeEdge::None; hit.titlebar:
\* point_is_on_titlebar; hit.seat: get_seat_from_window_id is Some; tl: the
\* windows whose surface exists with the xdg_shell_toplevel role.
click_on_window(a, c, hit, tl) ==
    LET id == hit.id
        focus == get_root_win_in_focus(a)
        root == IF get_root_window(a, id) # None
                THEN get_root_window(a, id) ELSE id
        set_focus == IF focus # None THEN root # focus /\ c = "Pressed"
                     ELSE TRUE
        a1 == IF set_focus THEN focus_on(a, id) ELSE a
    IN IF hit.edge
       THEN IF id \in tl /\ c = "Pressed" THEN set_resizing(a1, id) ELSE a1
       ELSE IF hit.titlebar
       THEN IF c = "Pressed" THEN set_grabbed(a1, id)
            ELSE set_grabbed(a1, None)
       ELSE IF ~set_focus /\ hit.seat THEN pointer_button(a1, id)
       ELSE a1

handle_click_on_window(a, c, hit, tl) ==
    LET resizing_ == get_resizing(a)
    IN IF get_grabbed(a) # None /\ c = "Released"
       THEN set_grabbed(a, None)
       ELSE IF resizing_ # None /\ c = "Released"
       THEN IF resizing_ \in tl THEN set_resizing(a, None) ELSE a
       ELSE IF hit.id # None THEN click_on_window(a, c, hit, tl)
       ELSE a

\* Older revision: only a click on a titlebar does anything.
handle_click_on_window_old(a, c, hit, tl) ==
    IF hit.id # None /\ hit.titlebar
    THEN IF c = "Pressed" THEN set_grabbed(a, hit.id)
         ELSE set_grabbed(a, None)
    ELSE a

----------------------------------------------------------------------------
(* atmos_gen: the accessors generated for a property enum *)

\* Entity ids per id space that the store is exercised with.
NumIds == 2

\* The three property namespaces and the variants of each enum that are
\* exercised, in declaration order.
Namespaces == {"global", "window", "client"}

Variants(ns) ==
    IF ns = "global" THEN <<"grabbed", "resizing">>
    ELSE IF ns = "window" THEN <<"skiplist_next", "skiplist_prev">>
    ELSE <<"seat">>

\* The ids of a namespace; the global namespace is a singleton.
Ids(ns) == IF ns = "global" THEN {None} ELSE 1..NumIds

\* construct_properties with a fault: the counter i is never advanced.
PropertyId_nocount(ns, kind) == 0

\* construct_properties: the constant of a variant is its position in the
\* enum, counted from 0.
PropertyId(ns, kind) ==
    (CHOOSE i \in 1..Len(Variants(ns)) : Variants(ns)[i] = kind) - 1

\* Option<Property>: None, or a variant with its value.
NoProp == [some |-> FALSE, kind |-> "", val |-> FALSE]
SomeProp(kind, val) == [some |-> TRUE, kind |-> kind, val |-> val]

\* A store with nothing set: [namespace][id][property id].
EmptyProps ==
    [ns \in Namespaces |->
        [id \in Ids(ns) |-> [p \in 0..(Len(Variants(ns)) - 1) |-> NoProp]]]

\* The generated set_<kind>: set_global_prop / set_window_prop /
\* set_client_prop with the variant built from the argument.
set_prop(props, ns, id, kind, val) ==
    [props EXCEPT ![ns][id][PropertyId(ns, kind)] = SomeProp(kind, val)]

\* The generated get_<kind>: the value when the slot holds this variant,
\* panic!("property not found") otherwise.
get_prop(props, ns, id, kind) ==
    LET p == props[ns][id][PropertyId(ns, kind)]
    IN IF p.some /\ p.kind = kind THEN [ok |-> TRUE, val |-> p.val]
       ELSE [ok |-> FALSE, val |-> FALSE]

\* The (namespace, id, kind) triples.
Cells ==
    {c \in Namespaces \X (0..NumIds) \X
            {"grabbed", "resizing", "skiplist_next", "skiplist_prev", "seat"} :
        /\ c[2] \in Ids(c[1])
        /\ \E i \in 1..Len(Variants(c[1])) : Variants(c[1])[i] = c[3]}

EcsOp(op, c, val, res, pre) ==
    [op |-> op, cell |-> c, val |-> val, res |-> res, pre |-> pre]

EcsInit ==
    [props |-> EmptyProps,
     written |-> [c \in Cells |-> [set |-> FALSE, val |-> FALSE]],
     last |-> EcsOp("init", <<"global", None, "grabbed">>, FALSE,
                    [ok |-> TRUE, val |-> FALSE], EmptyProps)]

----------------------------------------------------------------------------
(* The state machine *)

NoPre == [none |-> TRUE]

Op(op, x, y, pre, ev, tr) ==
    [op |-> op, a |-> x, b |-> y, pre |-> pre, ev |-> ev, tr |-> tr]

\* Two operations back only a remove (with the state it started in), a
\* focus_on (a focus_on(None) with the focus it cleared), a place_below, a
\* free, an end_recording and a set_scroll_region are remembered: the
\* claims about pairs of operations start with one of these.
Forget(l) ==
    IF l.op = "remove" THEN [l EXCEPT !.ev = << >>, !.tr = << >>]
    ELSE IF l.op = "focus" /\ l.a = None
         THEN [l EXCEPT !.pre = [wf |-> l.pre.wf], !.ev = << >>, !.tr = << >>]
    ELSE IF l.op \in {"focus", "below", "free", "end_recording",
                      "set_scroll_region"}
         THEN [l EXCEPT !.pre = NoPre, !.ev = << >>, !.tr = << >>]
    ELSE Op("other", None, None, NoPre, << >>, << >>)

\* The observer of keyboard notifications: kbd is the window whose enter
\* has not been followed by a leave; ok tells whether every notification of
\* the operation respected the pairing (a leave goes to kbd, an enter finds
\* no other window entered).
RECURSIVE Pairing(_, _, _)
Pairing(h, ev, i) ==
    IF i > Len(ev) THEN h
    ELSE LET e == ev[i]
             h1 == IF e[1] = "enter"
                   THEN [h EXCEPT !.ok = @ /\ h.kbd \in {None, e[2]},
                                  !.kbd = e[2]]
                   ELSE IF e[1] = "leave"
                   THEN [h EXCEPT !.ok = @ /\ h.kbd = e[2],
                                  !.kbd = IF h.kbd = e[2] THEN None ELSE @]
                   ELSE h
         IN Pairing(h1, ev, i + 1)

\* The observer of removed windows: stale holds the windows removed from
\* the order and not re-inserted or named by an operation since; was tells
\* whether the window the operation acted on was one of them.
Removed(h, op, x, y) ==
    [h EXCEPT !.was   = x \in h.stale,
              !.stale = IF op = "remove" THEN @ \cup {x} ELSE @ \ {x, y}]

\* The observer of resize batching: sum is the movement received while a
\* resize was active since the last flush, a call of update_from_eventloop
\* with a resize active.
Batched(h, op, rs, m) ==
    IF h.mode # "batch" \/ rs = None THEN h
    ELSE IF op = "frame" THEN [h EXCEPT !.sum = <<0, 0>>]
    ELSE [h EXCEPT !.sum = <<@[1] + m[1], @[2] + m[2]>>]

Observe(h, op, x, y, post) ==
    IF h.mode = "kbd" THEN Pairing([h EXCEPT !.ok = TRUE], post.ev, 1)
    ELSE IF h.mode = "stale" THEN Removed(h, op, x, y)
    ELSE h

\* Write the Atmosphere an operation returned.
Store(post) ==
    /\ skiplist_next' = post.next
    /\ skiplist_prev' = post.prev
    /\ parent_window' = post.parent
    /\ top_child' = post.top
    /\ win_focus' = post.wf
    /\ surf_focus' = post.sf
    /\ grabbed' = post.gr
    /\ resizing' = post.rs
    /\ UNCHANGED <<rev, ecs, th_params, viewport>>

\* Write the Atmosphere an operation returned and record the operation.
Return(op, x, y, post) ==
    /\ Store(post)
    /\ last' = Op(op, x, y, Atmos, post.ev, post.tr)
    /\ prior' = Forget(last)
    /\ hist' = Observe(hist, op, x, y, post)
    /\ UNCHANGED <<client_ids, i_resize_diff, i_pointer_focus>>

\* One more ordering or focus operation, while the bound allows it.
Step ==
    /\ nops < (IF hist.mode = "old" THEN MaxOldOps ELSE MaxOps)
    /\ nops' = nops + 1
    /\ UNCHANGED windows

\* Thundr::new leaves th_params None: no recording is in progress. Some
\* params is a record with some TRUE; draws counts the surfaces recorded.
NoParams == [some |-> FALSE, draws |-> 0]

\* Viewport::new: the scroll region is the size, the scroll offset zero.
Viewport_new(x, y, width, height) ==
    [offset |-> <<x, y>>, size |-> <<width, height>>,
     scroll_region |-> <<width, height>>, scroll_offset |-> <<0, 0>>]

\* The widths and heights viewports are created with.
Dims == {2, 3}

Start(mode) ==
    /\ rev \in {"cur", "old"}
    /\ windows = {}
    /\ skiplist_next = [w \in WindowId |-> None]
    /\ skiplist_prev = [w \in WindowId |-> None]
    /\ parent_window = [w \in WindowId |-> None]
    /\ top_child = [w \in WindowId |-> None]
    /\ win_focus = None
    /\ surf_focus = None
    /\ grabbed = None
    /\ resizing = None
    /\ ecs = EcsInit
    /\ client_ids = [c \in 1..NumIds |-> "free"]
    /\ i_resize_diff = <<0, 0>>
    /\ i_pointer_focus = None
    /\ th_params = NoParams
    /\ viewport \in IF mode = "viewport"
                    THEN {Viewport_new(0, 0, w, h) : w \in Dims, h \in Dims}
                    ELSE {Viewport_new(0, 0, 2, 2)}
    /\ last = Op("init", None, None, NoPre, << >>, << >>)
    /\ prior = Op("other", None, None, NoPre, << >>, << >>)
    /\ nops = 0
    /\ hist = [mode |-> mode, kbd |-> None, ok |-> TRUE,
               stale |-> {}, was |-> FALSE, sum |-> <<0, 0>>]

\* The state after construction, with the observer switched off.
Init == Start("off")

\* The reset with a fault: a recycled id keeps the values it had.
clear_window_props_keep(a, id) == a

\* The properties of a window id that is (re)used: all read None.
clear_window_props(a, id) ==
    [a EXCEPT !.next[id] = None, !.prev[id] = None,
              !.parent[id] = None, !.top[id] = None]

\* mint_window_id + add_window_id: the lowest id that is not live is
\* registered with its skiplist, parent and top-child properties reading
\* None; a recycled id has its properties cleared first.
MintWindow ==
    /\ windows # WindowId
    /\ LET id == CHOOSE i \in WindowId \ windows :
                     \A j \in WindowId \ windows : i <= j
       IN /\ windows' = windows \cup {id}
          /\ Return("mint", id, None, clear_window_props(Atmos, id))
          /\ UNCHANGED nops

\* Window destruction: the window is unlinked with skiplist_remove_window
\* and its id is freed (free_window_id marks it as no longer live).
FreeWindow ==
    \E id \in windows :
        /\ Return("free", id, None,
                  IF rev = "cur" THEN skiplist_remove_window(Atmos, id)
                  ELSE skiplist_remove_window_old(Atmos, id))
        /\ windows' = windows \ {id}
        /\ nops < MaxOps
        /\ nops' = nops + 1

SkiplistRemoveWindow ==
    \E id \in windows :
        /\ Return("remove", id, None,
                  IF rev = "cur" THEN skiplist_remove_window(Atmos, id)
                  ELSE skiplist_remove_window_old(Atmos, id))
        /\ Step

SkiplistPlaceAbove ==
    \E id \in windows, target \in windows :
        /\ Return("above", id, target,
                  IF rev = "cur" THEN skiplist_place_above(Atmos, id, target)
                  ELSE skiplist_place_above_old(Atmos, id, target))
        /\ Step

SkiplistPlaceBelow ==
    \E id \in windows, target \in windows :
        /\ Return("below", id, target,
                  IF rev = "cur" THEN skiplist_place_below(Atmos, id, target)
                  ELSE skiplist_place_below_old(Atmos, id, target))
        /\ Step

FocusOn ==
    \E win \in windows \cup {None} :
        /\ Return("focus", win, None,
                  IF rev = "cur" THEN focus_on(Atmos, win)
                  ELSE focus_on_old(Atmos, win))
        /\ Step

\* The current revision's focus_on stores a window focus only when one is
\* stored already (line 109 is inside `if let Some(prev)`). The first one is
\* stored through the generated setter set_win_focus, for a root window at
\* the head of its list.
SetWinFocus ==
    \E win \in windows :
        /\ rev = "cur"
        /\ win_focus = None
        /\ parent_window[win] = None
        /\ skiplist_prev[win] = None
        /\ Return("setfocus", win, None, set_win_focus(Atmos, win))
        /\ Step

\* Only the current revision has add_new_top_subsurf. The caller (the
\* subcompositor) never makes a window its own ancestor.
AddNewTopSubsurf ==
    \E parent \in windows, win \in windows :
        /\ rev = "cur"
        /\ win # parent
        /\ ~HasAncestor(Atmos, parent, win, NumWin)
        /\ Return("subsurf", parent, win,
                  add_new_top_subsurf(Atmos, parent, win))
        /\ Step

Next ==
    \/ MintWindow
    \/ FreeWindow
    \/ SkiplistRemoveWindow
    \/ SkiplistPlaceAbove
    \/ SkiplistPlaceBelow
    \/ FocusOn
    \/ SetWinFocus
    \/ AddNewTopSubsurf

Spec == Init /\ [][Next]_vars

\* Focus changes and removals with the keyboard notifications observed.
NextKbd ==
    \/ MintWindow
    \/ FocusOn
    \/ SkiplistRemoveWindow

InitKbd == Start("kbd")

SpecKbd == InitKbd /\ [][NextKbd]_vars

\* The ordering operations with the removed windows observed.
NextStale ==
    \/ MintWindow
    \/ SkiplistRemoveWindow
    \/ SkiplistPlaceAbove
    \/ SkiplistPlaceBelow
    \/ FocusOn

InitStale == Start("stale")

SpecStale == InitStale /\ [][NextStale]_vars

\* The ordering operations of the older revision, one operation deeper.
NextOld ==
    \/ MintWindow
    \/ SkiplistRemoveWindow
    \/ SkiplistPlaceAbove
    \/ SkiplistPlaceBelow
    \/ FocusOn

InitOld == Start("old") /\ rev = "old"

SpecOld == InitOld /\ [][NextOld]_vars

\* Subsurfaces are attached and nothing else happens.
NextSubsurf ==
    \/ MintWindow
    \/ AddNewTopSubsurf

SpecSubsurf == Init /\ [][NextSubsurf]_vars

\* Subsurfaces are attached and the focus moves.
NextStack ==
    \/ MintWindow
    \/ SetWinFocus
    \/ AddNewTopSubsurf
    \/ FocusOn

SpecStack == Init /\ [][NextStack]_vars

\* What can be under the cursor: no window, or a window and where on it.
\* The handler tests edge, then titlebar, then the seat; a test it does not
\* reach is recorded as FALSE.
Hits ==
    {h \in [id : windows \cup {None}, edge : BOOLEAN, titlebar : BOOLEAN,
            seat : BOOLEAN] :
        /\ h.id = None => ~h.edge
        /\ (h.id = None \/ h.edge) => ~h.titlebar
        /\ (h.id = None \/ h.edge \/ h.titlebar) => ~h.seat}

\* The windows whose surface role the handler can read: the one being
\* resized and the one under the cursor.
RoleRead(hit) == ({resizing, hit.id} \ {None}) \cap windows

\* Input::handle_input_event with a click: a pointer button changed state
\* with the cursor at hit.
Click ==
    \E c \in ButtonState, hit \in Hits :
      \E tl \in SUBSET RoleRead(hit) :
        LET post == IF rev = "cur"
                    THEN handle_click_on_window(Atmos, c, hit, tl)
                    ELSE handle_click_on_window_old(Atmos, c, hit, tl)
        IN /\ Store(post)
           /\ last' = [op |-> "click", a |-> hit.id, b |-> None,
                        pre |-> Atmos, ev |-> post.ev, tr |-> post.tr,
                        c |-> c, hit |-> hit, tl |-> tl]
           /\ prior' = Forget(last)
           /\ UNCHANGED <<client_ids, i_resize_diff, i_pointer_focus, hist>>
           /\ Step

\* The input subsystem: windows are created, one receives the first window
\* focus, and pointer buttons are pressed and released over them.
NextInput ==
    \/ MintWindow
    \/ SetWinFocus
    \/ Click

SpecInput == Init /\ [][NextInput]_vars

\* The Input object as a record.
Input == [i_resize_diff |-> i_resize_diff, i_pointer_focus |-> i_pointer_focus]

\* The relative movements a PointerMove event carries (pm_dx, pm_dy).
Deltas == {<<1, 0>>, <<0, -1>>}

\* Input::pointer_enter, Input::pointer_leave and the motion delivery: the
\* call is recorded as a sub-step; the client is notified when the window is
\* in seats, the windows whose client has a seat and whose surface is found.
pointer_enter(a, id, seats) ==
    Log(IF id \in seats
        THEN [a EXCEPT !.ev = Append(@, <<"pointer_enter", id>>)] ELSE a,
        "pointer_enter", id)
pointer_leave(a, id, seats) ==
    Log(IF id \in seats
        THEN [a EXCEPT !.ev = Append(@, <<"pointer_leave", id>>)] ELSE a,
        "pointer_leave", id)
pointer_motion(a, id, seats) ==
    IF id \in seats
    THEN Log([a EXCEPT !.ev = Append(@, <<"motion", id>>)], "motion", id)
    ELSE a

\* Input::handle_pointer_move with a fault: the new window is entered before
\* the old one is left.
handle_pointer_move_enterfirst(self, a, m, focus, seats) ==
    IF get_resizing(a) # None
    THEN [self |-> [self EXCEPT !.i_resize_diff =
                        <<@[1] + m[1], @[2] + m[2]>>],
          atmos |-> a]
    ELSE LET changed == focus # self.i_pointer_focus
             a1 == IF changed /\ focus # None
                   THEN pointer_enter(a, focus, seats) ELSE a
             a2 == IF changed /\ self.i_pointer_focus # None
                   THEN pointer_leave(a1, self.i_pointer_focus, seats) ELSE a1
             a3 == IF focus # None THEN pointer_motion(a2, focus, seats)
                   ELSE a2
         IN [self |-> IF changed THEN [self EXCEPT !.i_pointer_focus = focus]
                      ELSE self,
             atmos |-> a3]

\* Input::handle_pointer_move. focus is the window with input under the new
\* cursor position.
handle_pointer_move(self, a, m, focus, seats) ==
    IF get_resizing(a) # None
    THEN [self |-> [self EXCEPT !.i_resize_diff =
                        <<@[1] + m[1], @[2] + m[2]>>],
          atmos |-> a]
    ELSE LET changed == focus # self.i_pointer_focus
             a1 == IF changed /\ self.i_pointer_focus # None
                   THEN pointer_leave(a, self.i_pointer_focus, seats) ELSE a
             a2 == IF changed /\ focus # None
                   THEN pointer_enter(a1, focus, seats) ELSE a1
             a3 == IF focus # None THEN pointer_motion(a2, focus, seats)
                   ELSE a2
         IN [self |-> IF changed THEN [self EXCEPT !.i_pointer_focus = focus]
                      ELSE self,
             atmos |-> a3]

\* The largest magnitude up to which every integer is an f32.
F32Exact == 16777216

\* The cast `as f32` of an integral f64: exact up to F32Exact, rounded to
\* the nearest even multiple of two in the next binade.
AsF32(x) ==
    IF -F32Exact <= x /\ x <= F32Exact THEN x
    ELSE IF x % 2 = 0 THEN x
    ELSE IF ((x - 1) \div 2) % 2 = 0 THEN x - 1
    ELSE x + 1

\* Input::update_from_eventloop with a fault: the batch is kept after it
\* was sent.
update_from_eventloop_noreset(self, a, tl) ==
    IF get_resizing(a) # None
    THEN [self |-> self,
          atmos |-> IF get_resizing(a) \in tl
                    THEN Log([a EXCEPT !.ev =
                                 Append(@, <<"configure", get_resizing(a)>>)],
                             "configure", get_resizing(a))
                    ELSE a,
          sent |-> IF get_resizing(a) \in tl
                   THEN << <<AsF32(self.i_resize_diff[1]),
                             AsF32(self.i_resize_diff[2])>> >>
                   ELSE << >>]
    ELSE [self |-> self, atmos |-> a, sent |-> << >>]

\* Input::update_from_eventloop: the batched movement is sent to the
\* toplevel being resized and the batch is cleared. sent holds what the
\* configure calls carried.
update_from_eventloop(self, a, tl) ==
    IF get_resizing(a) # None
    THEN [self |-> [self EXCEPT !.i_resize_diff = <<0, 0>>],
          atmos |-> IF get_resizing(a) \in tl
                    THEN Log([a EXCEPT !.ev =
                                 Append(@, <<"configure", get_resizing(a)>>)],
                             "configure", get_resizing(a))
                    ELSE a,
          sent |-> IF get_resizing(a) \in tl
                   THEN << <<AsF32(self.i_resize_diff[1]),
                             AsF32(self.i_resize_diff[2])>> >>
                   ELSE << >>]
    ELSE [self |-> self, atmos |-> a, sent |-> << >>]

\* Write the Input object a handler returned.
StoreInput(self) ==
    /\ i_resize_diff' = self.i_resize_diff
    /\ i_pointer_focus' = self.i_pointer_focus

\* Input::handle_input_event with a pointer movement.
PointerMove ==
    \E m \in Deltas, focus \in windows \cup {None} :
      \E seats \in SUBSET (IF resizing # None THEN {}
                           ELSE {focus, i_pointer_focus} \ {None}) :
        /\ rev = "cur"
        /\ LET r == handle_pointer_move(Input, Atmos, m, focus, seats)
           IN /\ Store(r.atmos)
              /\ StoreInput(r.self)
              /\ last' = [op |-> "move", a |-> focus, b |-> None,
                           pre |-> Atmos, ev |-> r.atmos.ev,
                           tr |-> r.atmos.tr, self |-> Input, m |-> m,
                           seats |-> seats]
              /\ prior' = Forget(last)
              /\ hist' = Batched(hist, "move", resizing, m)
              /\ UNCHANGED client_ids
              /\ Step

\* The end of a frame: the event loop calls update_from_eventloop.
UpdateFromEventloop ==
    \E tl \in SUBSET (({resizing} \ {None}) \cap windows) :
        /\ rev = "cur"
        /\ LET r == update_from_eventloop(Input, Atmos, tl)
           IN /\ Store(r.atmos)
              /\ StoreInput(r.self)
              /\ last' = [op |-> "frame", a |-> resizing, b |-> None,
                           pre |-> Atmos, ev |-> r.atmos.ev,
                           tr |-> r.atmos.tr, self |-> Input,
                           sent |-> r.sent, sum |-> hist.sum]
              /\ prior' = Forget(last)
              /\ hist' = Batched(hist, "frame", resizing, <<0, 0>>)
              /\ UNCHANGED <<client_ids, windows, nops>>

\* The pointer: buttons, movement and the end of each frame.
NextPointer ==
    \/ MintWindow
    \/ Click
    \/ PointerMove
    \/ UpdateFromEventloop

SpecPointer == Init /\ [][NextPointer]_vars

\* The pointer with the batched resize movement observed.
InitBatch == Start("batch")

SpecBatch == InitBatch /\ [][NextPointer]_vars

\* ways/utils.rs register_new_client, older revision: the id of a new
\* client comes from mint_client_id and is registered with add_window_id.
\* calls lists the allocator calls made and the id space their id is from.
RegisterNewClient ==
    /\ rev = "old"
    /\ \E c \in 1..NumIds : client_ids[c] = "free"
    /\ LET id == CHOOSE c \in 1..NumIds :
                     /\ client_ids[c] = "free"
                     /\ \A d \in 1..NumIds : client_ids[d] = "free" => c <= d
           post == clear_window_props(Atmos, id)
       IN /\ client_ids' = [client_ids EXCEPT ![id] = "connected"]
          /\ windows' = windows \cup {id}
          /\ Store(post)
          /\ last' = [op |-> "register", a |-> id, b |-> None,
                       pre |-> Atmos, ev |-> post.ev, tr |-> post.tr,
                       calls |-> << <<"mint_client_id", "client">>,
                                    <<"add_window_id", "client">> >>]
          /\ prior' = Forget(last)
          /\ UNCHANGED <<i_resize_diff, i_pointer_focus, hist>>
          /\ nops < MaxOps
          /\ nops' = nops + 1

\* The destructor register_new_client installs: the client's id is handed
\* to free_window_id.
ClientDestroyed ==
    \E id \in 1..NumIds :
        /\ client_ids[id] = "connected"
        /\ LET post == skiplist_remove_window_old(Atmos, id)
           IN /\ client_ids' = [client_ids EXCEPT ![id] = "destroyed"]
              /\ windows' = windows \ {id}
              /\ Store(post)
              /\ last' = [op |-> "client_destroyed", a |-> id, b |-> None,
                           pre |-> Atmos, ev |-> post.ev, tr |-> post.tr,
                           calls |-> << <<"free_window_id", "client">> >>]
              /\ prior' = Forget(last)
              /\ UNCHANGED <<i_resize_diff, i_pointer_focus, hist>>
              /\ nops < MaxOps
              /\ nops' = nops + 1

\* Clients connect and disconnect while windows are created.
NextWays ==
    \/ MintWindow
    \/ FreeWindow
    \/ SkiplistPlaceAbove
    \/ RegisterNewClient
    \/ ClientDestroyed

SpecWays == Init /\ [][NextWays]_vars

\* The variables of the window order, focus and input.
atmos_vars ==
    <<rev, windows, skiplist_next, skiplist_prev, parent_window, top_child,
      win_focus, surf_focus, grabbed, resizing, client_ids, i_resize_diff,
      i_pointer_focus, hist, th_params, viewport, last, prior>>

\* A generated setter is called.
SetProp ==
    \E c \in Cells, val \in BOOLEAN :
        /\ nops < MaxOps
        /\ nops' = nops + 1
        /\ ecs' = [props |-> set_prop(ecs.props, c[1], c[2], c[3], val),
                   written |-> [ecs.written EXCEPT
                                   ![c] = [set |-> TRUE, val |-> val]],
                   last |-> EcsOp("set", c, val, [ok |-> TRUE, val |-> val],
                                  ecs.props)]
        /\ UNCHANGED atmos_vars

\* A generated getter is called.
GetProp ==
    \E c \in Cells :
        /\ nops < MaxOps
        /\ nops' = nops + 1
        /\ ecs' = [ecs EXCEPT
                      !.last = EcsOp("get", c, FALSE,
                                     get_prop(ecs.props, c[1], c[2], c[3]),
                                     ecs.props)]
        /\ UNCHANGED atmos_vars

NextStore ==
    \/ SetProp
    \/ GetProp

SpecStore == Init /\ [][NextStore]_vars

----------------------------------------------------------------------------
(* Vocabulary of the claims *)

\* The operation that returned last, and the one before it.
Did(op) == last.op = op
DidBefore(op) == prior.op = op

\* Position of the first occurrence of e in the sequence s, 0 if none.
Pos(s, e) ==
    IF \E i \in 1..Len(s) : s[i] = e
    THEN CHOOSE i \in 1..Len(s) : s[i] = e /\ \A j \in 1..(i - 1) : s[j] # e
    ELSE 0

\* s without the elements equal to e.
Without(s, e) == SelectSeq(s, LAMBDA x : x # e)

\* As much of s as the iterator is run for.
Trunc(s) == SubSeq(s, 1, IF Len(s) < IterFuel THEN Len(s) ELSE IterFuel)

\* Following next from w reaches None within n steps.
RECURSIVE EndsWithin(_, _, _)
EndsWithin(a, w, n) ==
    IF w = None THEN TRUE
    ELSE IF n = 0 THEN FALSE
    ELSE EndsWithin(a, get_skiplist_next(a, w), n - 1)

Reciprocal(a) ==
    \A w \in windows :
        /\ get_skiplist_next(a, w) # None
              => get_skiplist_prev(a, get_skiplist_next(a, w)) = w
        /\ get_skiplist_prev(a, w) # None
              => get_skiplist_next(a, get_skiplist_prev(a, w)) = w

Acyclic(a) == \A w \in windows : EndsWithin(a, w, Cardinality(windows))

----------------------------------------------------------------------------
(* C1..C10 *)

\* C1: reciprocity. After every public ordering operation, for every
\* window w, next(w) = Some(n) implies prev(n) = Some(w) and prev(w) = Some(p)
\* implies next(p) = Some(w).
C1_Reciprocity == Reciprocal(Atmos)

\* C2: acyclicity. In every reachable state, following next from any window
\* reaches None within (number of live windows) steps.
C2_Acyclic == Acyclic(Atmos)

\* C3: focus_on(Some(A)) followed by focus_on(Some(B)), A # B: a keyboard
\* leave for A is emitted and comes strictly before the keyboard enter for B.
C3_LeaveBeforeEnter ==
    (/\ Did("focus") /\ DidBefore("focus")
     /\ last.a # None /\ prior.a # None /\ last.a # prior.a)
    => /\ Pos(last.ev, <<"leave", prior.a>>) # 0
       /\ Pos(last.ev, <<"enter", last.a>>) # 0
       /\ Pos(last.ev, <<"leave", prior.a>>) < Pos(last.ev, <<"enter", last.a>>)

\* C4: with p focused and w # p, after focus_on(Some(w)) the global order
\* has w as head and p as its successor, followed by every other window
\* that was listed before, once each and in the previous relative order.
C4_FocusMovesToHead ==
    (/\ Did("focus") /\ last.a # None
     /\ last.pre.wf # None /\ last.pre.wf # last.a)
    => visible_windows(Atmos)
          = Trunc(<<last.a>> \o Without(visible_windows(last.pre), last.a))

\* C5: with parent 1 whose subsurfaces are [3, 2], skiplist_place_below(2, 3)
\* leaves visible_subsurfaces(1) = [3, 2], and a following
\* skiplist_place_above(2, 3) makes it [2, 3].
C5_EndToEndReorder ==
    /\ (/\ Did("below") /\ last.a = 2 /\ last.b = 3
        /\ last.pre.parent[2] = 1 /\ last.pre.parent[3] = 1
        /\ visible_subsurfaces(last.pre, 1) = <<3, 2>>)
       => visible_subsurfaces(Atmos, 1) = <<3, 2>>
    /\ (/\ Did("above") /\ last.a = 2 /\ last.b = 3
        /\ DidBefore("below") /\ prior.a = 2 /\ prior.b = 3
        /\ last.pre.parent[2] = 1 /\ last.pre.parent[3] = 1
        /\ visible_subsurfaces(last.pre, 1) = <<3, 2>>)
       => visible_subsurfaces(Atmos, 1) = <<2, 3>>

\* The elements of a sequence.
Range(s) == {s[i] : i \in 1..Len(s)}

\* C6: add_new_top_subsurf(parent, c) for a child c that is not in the
\* parent's list makes visible_subsurfaces(parent) yield c first, followed
\* by the previous sequence unchanged.
C6_NewTopSubsurfOnTop ==
    (/\ Did("subsurf")
     /\ last.b \notin Range(visible_subsurfaces(last.pre, last.a)))
    => visible_subsurfaces(Atmos, last.a)
          = Trunc(<<last.b>> \o visible_subsurfaces(last.pre, last.a))

\* The sequences of distinct registered windows.
InjSeqs ==
    UNION {{s \in [1..n -> windows] :
               \A i, j \in 1..n : i # j => s[i] # s[j]} :
           n \in 1..Cardinality(windows)}

\* L is a whole list of a: its links run from L[1], which has no prev, to
\* its last window, which has no next, and each link is reciprocated.
IsList(a, L) ==
    /\ get_skiplist_prev(a, L[1]) = None
    /\ get_skiplist_next(a, L[Len(L)]) = None
    /\ \A i \in 1..(Len(L) - 1) :
          /\ get_skiplist_next(a, L[i]) = L[i + 1]
          /\ get_skiplist_prev(a, L[i + 1]) = L[i]

\* L with w taken out and put back immediately before m.
MovedBefore(L, w, m) ==
    LET R == Without(L, w)
        k == Pos(R, m)
    IN SubSeq(R, 1, k - 1) \o <<w>> \o SubSeq(R, k, Len(R))

\* C7: for w in a list of size k and another member m,
\* skiplist_remove_window(w) followed by skiplist_place_above(w, m) yields a
\* list of size k with w immediately before m and the order of the other
\* k-1 windows unchanged.
C7_RemoveReinsert ==
    (/\ Did("above") /\ DidBefore("remove")
     /\ prior.a = last.a /\ last.b # last.a)
    => \A L \in InjSeqs :
          (/\ IsList(prior.pre, L)
           /\ last.a \in Range(L) /\ last.b \in Range(L))
          => IsList(Atmos, MovedBefore(L, last.a, last.b))

\* A list of three windows had its last window removed and put back before
\* the second one, which has a predecessor.
C7_Witness ==
    /\ Did("above") /\ DidBefore("remove")
    /\ prior.a = last.a /\ last.b # last.a
    /\ \E L \in InjSeqs :
          /\ Len(L) = 3
          /\ IsList(prior.pre, L)
          /\ last.a = L[3] /\ last.b = L[2]
          /\ IsList(Atmos, <<L[1], L[3], L[2]>>)

\* C8: calling skiplist_remove_window(w) twice in a row: the second call
\* changes no other window's next/prev links.
C8_RemoveTwice ==
    (Did("remove") /\ DidBefore("remove") /\ prior.a = last.a)
    => \A x \in windows \ {last.a} :
          /\ skiplist_next[x] = last.pre.next[x]
          /\ skiplist_prev[x] = last.pre.prev[x]

\* The same window was removed twice in a row and the first call unlinked
\* it from between two neighbours.
C8_Witness ==
    /\ Did("remove") /\ DidBefore("remove") /\ prior.a = last.a
    /\ prior.pre.next # last.pre.next
    /\ prior.pre.prev # last.pre.prev
    /\ skiplist_next = last.pre.next
    /\ skiplist_prev = last.pre.prev

\* C9: focus_on(Some(w)) when w is already the window focus is a no-op: no
\* leave or enter notification, no focus property and no skiplist pointer
\* changes.
C9_RefocusIsNoOp ==
    (Did("focus") /\ last.a # None /\ last.pre.wf = last.a)
    => /\ last.ev = << >>
       /\ Atmos = last.pre

\* C10: after focus_on(Some(w)), from Unfocused or from Focused(p) with
\* p # w, the global window focus reads Some(w).
C10_FocusStored ==
    (Did("focus") /\ last.a # None /\ last.pre.wf # last.a)
    => win_focus = last.a

----------------------------------------------------------------------------
(* C11..C20 *)

\* The positions in the sub-step record tr of the skiplist link writes.
LinkWrites(tr) ==
    {i \in 1..Len(tr) : tr[i][1] \in {"set_skiplist_next", "set_skiplist_prev"}}

\* C11: within one focus_on(Some(w)) with a previous focus p # w, the leave
\* notification to p is the first sub-step, every skiplist link write comes
\* before the enter notification to w, and the new focus is stored after the
\* enter notification.
C11_SubstepOrder ==
    (/\ Did("focus") /\ last.a # None
     /\ last.pre.wf # None /\ last.pre.wf # last.a)
    => LET tr == last.tr
           leave == Pos(tr, <<"keyboard_leave", last.pre.wf>>)
           enter == Pos(tr, <<"keyboard_enter", last.a>>)
           store == Pos(tr, <<"set_win_focus", last.a>>)
       IN /\ leave = 1
          /\ enter # 0
          /\ \A i \in LinkWrites(tr) : i < enter
          /\ store > enter

\* C12: focus_on(None) leaves the global window focus None, emits no enter
\* notification and changes no window's skiplist next/prev.
C12_FocusOnNone ==
    (Did("focus") /\ last.a = None)
    => /\ win_focus = None
       /\ \A i \in 1..Len(last.ev) : last.ev[i][1] # "enter"
       /\ skiplist_next = last.pre.next
       /\ skiplist_prev = last.pre.prev

\* focus_on(None) was called with a window focused that heads a list of at
\* least two windows.
C12_Witness ==
    /\ Did("focus") /\ last.a = None
    /\ last.pre.wf # None
    /\ last.pre.next[last.pre.wf] # None
    /\ win_focus = None

\* C13: in every reachable state, if the global window focus is Some(w) then
\* w is a registered (minted and not freed) window id, also after the
\* focused window was unlinked and freed.
C13_FocusIsRegistered == win_focus # None => win_focus \in windows

\* C14: handling a pointer-button Release while a grab is active leaves
\* grabbed = None and consumes the event: no button event is forwarded to a
\* client and no focus changes, wherever the cursor is.
C14_ReleaseEndsGrab ==
    (Did("click") /\ last.c = "Released" /\ last.pre.gr # None)
    => /\ grabbed = None
       /\ last.ev = << >>
       /\ win_focus = last.pre.wf
       /\ surf_focus = last.pre.sf

\* What n successive next() calls return on an iterator at cur.
RECURSIVE Calls(_, _, _)
Calls(a, cur, n) ==
    IF n = 0 THEN << >>
    ELSE LET r == vwi_next(a, cur)
         IN <<r.ret>> \o Calls(a, r.cur, n - 1)

\* L is the global order: it starts at the focused window, each window's
\* next is the following one and the last window has no next.
IsGlobalOrder(a, L) ==
    /\ get_window_in_focus(a) = L[1]
    /\ \A i \in 1..(Len(L) - 1) : get_skiplist_next(a, L[i]) = L[i + 1]
    /\ get_skiplist_next(a, L[Len(L)]) = None

\* C15: visible_windows() yields exactly the focused window followed by the
\* successive skiplist_next windows (for the global order [A, B, C]: A, B,
\* C), every next() after the last item returns None, and with no focused
\* window it yields nothing.
C15_IterationContent ==
    /\ \A L \in InjSeqs :
          IsGlobalOrder(Atmos, L)
          => /\ visible_windows(Atmos) = L
             /\ Calls(Atmos, get_window_in_focus(Atmos), Len(L) + 2)
                   = L \o <<None, None>>
    /\ win_focus = None
          => /\ visible_windows(Atmos) = << >>
             /\ Calls(Atmos, get_window_in_focus(Atmos), 2) = <<None, None>>

\* The global order is a list of three windows and the iterator yields it.
C15_Witness ==
    \E L \in InjSeqs :
        /\ Len(L) = 3
        /\ IsGlobalOrder(Atmos, L)
        /\ visible_windows(Atmos) = L

\* C16: if the next-links reachable from the iterator's root are acyclic,
\* iterating visible_windows() or visible_subsurfaces(id) to exhaustion
\* ends after at most (number of live windows) items.
C16_IterationBounded ==
    /\ EndsWithin(Atmos, get_window_in_focus(Atmos), NumWin)
          => Len(visible_windows(Atmos)) <= Cardinality(windows)
    /\ \A id \in windows :
          EndsWithin(Atmos, get_top_child(Atmos, id), NumWin)
          => Len(visible_subsurfaces(Atmos, id)) <= Cardinality(windows)

\* C17: skiplist_place_above(id, id) and skiplist_place_below(id, id) do
\* not corrupt the list: afterwards next(id) # id and prev(id) # id,
\* reciprocity and acyclicity hold if they held before, and every list of
\* other windows is as it was.
C17_SelfPlacement ==
    ((Did("above") \/ Did("below")) /\ last.a = last.b)
    => /\ skiplist_next[last.a] # last.a
       /\ skiplist_prev[last.a] # last.a
       /\ Reciprocal(last.pre) => Reciprocal(Atmos)
       /\ Acyclic(last.pre) => Acyclic(Atmos)
       /\ \A L \in InjSeqs :
             (IsList(last.pre, L) /\ last.a \notin Range(L))
             => IsList(Atmos, L)

\* C18: last write wins. In each namespace a read of (id, kind) returns the
\* value of the most recent set of that (id, kind), and a set of (id, kind)
\* leaves what every other (id', kind') reads unchanged.
C18_LastWriteWins ==
    /\ \A c \in Cells :
          ecs.written[c].set
          => get_prop(ecs.props, c[1], c[2], c[3])
                = [ok |-> TRUE, val |-> ecs.written[c].val]
    /\ ecs.last.op = "set"
          => \A c \in Cells \ {ecs.last.cell} :
                get_prop(ecs.props, c[1], c[2], c[3])
                   = get_prop(ecs.last.pre, c[1], c[2], c[3])

\* A value was overwritten by a second set of the same (id, kind) while
\* another kind of the same window holds a value.
C18_Witness ==
    /\ ecs.last.op = "set"
    /\ ecs.last.cell = <<"window", 1, "skiplist_next">>
    /\ get_prop(ecs.last.pre, "window", 1, "skiplist_next")
          = [ok |-> TRUE, val |-> ~ecs.last.val]
    /\ get_prop(ecs.props, "window", 1, "skiplist_next")
          = [ok |-> TRUE, val |-> ecs.last.val]
    /\ ecs.written[<<"window", 1, "skiplist_prev">>].set

\* C19: reading a property that has not been set for a live id yields "not
\* set" and never crashes: the generated get_<property> returns normally
\* when the (id, kind) pair is absent.
C19_UnsetReadReturns ==
    (ecs.last.op = "get" /\ ~ecs.written[ecs.last.cell].set)
    => ecs.last.res.ok

\* C20: after free of id X and a mint that reuses X, every property of the
\* new id (skiplist next/prev, parent, top-child) reads as unset, never a
\* leftover value of the previous entity.
C20_ReuseReadsUnset ==
    (Did("mint") /\ DidBefore("free") /\ prior.a = last.a)
    => /\ get_skiplist_next(Atmos, last.a) = None
       /\ get_skiplist_prev(Atmos, last.a) = None
       /\ get_parent_window(Atmos, last.a) = None
       /\ get_top_child(Atmos, last.a) = None

\* An id was freed while it still had a next link and a parent, and the
\* following mint reused it.
C20_Witness ==
    /\ Did("mint") /\ DidBefore("free") /\ prior.a = last.a
    /\ last.pre.next[last.a] # None
    /\ last.pre.parent[last.a] # None
    /\ skiplist_next[last.a] = None
    /\ parent_window[last.a] = None

----------------------------------------------------------------------------
(* C21..C30 *)

\* C21: the window and client id spaces are never confused: an id obtained
\* from mint_client_id is never passed to add_window_id or free_window_id.
C21_IdSpacesApart ==
    (Did("register") \/ Did("client_destroyed"))
    => \A i \in 1..Len(last.calls) :
          last.calls[i][1] \in {"add_window_id", "free_window_id"}
          => last.calls[i][2] = "window"

\* C22: over any sequence of focus_on(Some), focus_on(None) and
\* skiplist_remove_window, a keyboard leave goes only to the window that
\* most recently received an enter, and no enter is sent to a window while a
\* different window has an enter that no leave has followed.
C22_EnterLeavePaired ==
    (hist.mode = "kbd" /\ (Did("focus") \/ Did("remove"))) => hist.ok

\* C23: the focused window is the head of the global list: while win_focus
\* is Some(f), prev(f) is None, also after skiplist_place_above(x, f).
\* Checked where the claim names it: after skiplist_place_above(x, f) with
\* x another window, from a state where f was focused and was the head.
C23_FocusIsHead ==
    (/\ Did("above")
     /\ last.a # last.b
     /\ last.pre.wf = last.b
     /\ last.pre.prev[last.b] = None)
    => (win_focus # None => skiplist_prev[win_focus] = None)

\* A link of the state pre between two windows other than w is still there
\* in post, or w has been inserted into it.
NextKept(pre, post, u, w) ==
    LET v == pre.next[u]
    IN \/ post.next[u] = v
       \/ post.next[u] = w /\ post.next[w] = v
PrevKept(pre, post, v, w) ==
    LET u == pre.prev[v]
    IN \/ post.prev[v] = u
       \/ post.prev[v] = w /\ post.prev[w] = u

\* C24: removing again a window w that was removed and not re-inserted,
\* after operations on other windows, leaves every link between the other
\* windows intact. Checked for the explicit skiplist_remove_window(w), from
\* states where no window is linked to itself.
C24_StaleRemoveHarmless ==
    (/\ hist.mode = "stale"
     /\ hist.was
     /\ Did("remove")
     /\ \A u \in WindowId : last.pre.next[u] # u /\ last.pre.prev[u] # u)
    => LET w == last.a
       IN \A u \in WindowId \ {w} :
             /\ last.pre.next[u] \notin {None, w}
                    => NextKept(last.pre, Atmos, u, w)
             /\ last.pre.prev[u] \notin {None, w}
                    => PrevKept(last.pre, Atmos, u, w)

\* C25: with the global list [A, B, C], after focus_on(None) and then
\* focus_on(Some(w)), visible_windows() again yields all the windows of the
\* list. L is the list focus_on(None) started from, of two windows or more.
C25_RefocusKeepsList ==
    (/\ Did("focus") /\ last.a # None
     /\ DidBefore("focus") /\ prior.a = None
     /\ prior.pre.wf # None
     /\ LET L == Iterate(last.pre, prior.pre.wf, IterFuel)
        IN /\ IsList(last.pre, L)
           /\ Len(L) >= 2
           /\ last.a \in Range(L))
    => Range(visible_windows(Atmos))
          = Range(Iterate(last.pre, prior.pre.wf, IterFuel))

\* C26: add_new_top_subsurf(parent, c) for a child c that already is the
\* top child of parent leaves visible_subsurfaces(parent) as it was, and c
\* is not linked to itself.
C26_ReAddTopChild ==
    (/\ Did("subsurf")
     /\ last.pre.top[last.a] = last.b
     /\ last.pre.next[last.b] # last.b
     /\ last.pre.prev[last.b] # last.b)
    => /\ visible_subsurfaces(Atmos, last.a)
            = visible_subsurfaces(last.pre, last.a)
       /\ skiplist_next[last.b] # last.b
       /\ skiplist_prev[last.b] # last.b

\* C27: after any sequence of add_new_top_subsurf calls, re-parenting
\* included, every window that visible_subsurfaces(p) yields has
\* parent_window = Some(p), so no window is yielded for two parents.
C27_SubsurfListsDisjoint ==
    \A p \in windows :
        \A c \in Range(visible_subsurfaces(Atmos, p)) : parent_window[c] = p

\* C28: over sequences of add_new_top_subsurf and focus_on the global order
\* holds root windows only, and focus_on never unlinks a subsurface from its
\* parent's list. Checked at each focus_on(Some(w)) that starts with root
\* windows only in the global order.
C28_OnlyRootsInGlobalOrder ==
    (/\ Did("focus") /\ last.a # None
     /\ \A w \in Range(visible_windows(last.pre)) : last.pre.parent[w] = None)
    => /\ \A w \in Range(visible_windows(Atmos)) : parent_window[w] = None
       /\ \A p \in windows :
             visible_subsurfaces(Atmos, p) = visible_subsurfaces(last.pre, p)

\* C29: a pointer-button Release always ends an active resize: also when a
\* grab is active, or when the surface of the resized window is missing or
\* is not an xdg toplevel.
C29_ReleaseEndsResize ==
    (Did("click") /\ last.c = "Released" /\ last.pre.rs # None)
    => resizing = None

\* C30: whenever a resize becomes active, the pending i_resize_diff is
\* (0, 0).
C30_ResizeStartsClean ==
    (Did("click") /\ last.pre.rs = None /\ resizing # None)
    => i_resize_diff = <<0, 0>>

----------------------------------------------------------------------------
(* C31..C39 *)

\* The links of a once id is unlinked: the predecessor and the successor of
\* id are joined; the links of id itself are not looked at.
Unlinked(a, id) ==
    LET p == a.prev[id]
        n == a.next[id]
        nx == IF p # None THEN [a.next EXCEPT ![p] = n] ELSE a.next
        pv == IF n # None THEN [a.prev EXCEPT ![n] = p] ELSE a.prev
    IN [next |-> nx, prev |-> pv]

\* C31: for id # target, after skiplist_place_above(id, target):
\* next(id) = Some(target), prev(target) = Some(id), prev(id) is the
\* predecessor p target had once id was unlinked, next(p) = Some(id) if p
\* exists, and the links of the windows other than id, target, p and the
\* former neighbours of id are unchanged.
C31_PlaceAbovePost ==
    (Did("above") /\ last.a # last.b)
    => LET id == last.a
           target == last.b
           p == Unlinked(last.pre, id).prev[target]
       IN /\ skiplist_next[id] = target
          /\ skiplist_prev[target] = id
          /\ skiplist_prev[id] = p
          /\ p # None => skiplist_next[p] = id
          /\ \A w \in WindowId \ {id, target, p, last.pre.prev[id],
                                   last.pre.next[id]} :
                /\ skiplist_next[w] = last.pre.next[w]
                /\ skiplist_prev[w] = last.pre.prev[w]

\* C32: for id # target, after skiplist_place_below(id, target):
\* prev(id) = Some(target), next(target) = Some(id), next(id) is the
\* successor n target had once id was unlinked, and prev(n) = Some(id) if n
\* exists. Checked from states where no window is linked to itself.
C32_PlaceBelowPost ==
    (/\ Did("below") /\ last.a # last.b
     /\ \A u \in WindowId : last.pre.next[u] # u /\ last.pre.prev[u] # u)
    => LET id == last.a
           target == last.b
           n == Unlinked(last.pre, id).next[target]
       IN /\ skiplist_prev[id] = target
          /\ skiplist_next[target] = id
          /\ skiplist_next[id] = n
          /\ n # None => skiplist_prev[n] = id

\* The link writes the sub-step record tr holds, as <<setter, window>>.
LinkWritesOf(tr) == {tr[i] : i \in LinkWrites(tr)}

\* C33: skiplist_remove_window(id) with p = prev(id) and n = next(id) writes
\* only next(p) := n (if p exists) and prev(n) := p (if n exists); the
\* next/prev of id keep their values and, in the current revision, the
\* focus and every top-child pointer are unchanged.
C33_RemoveFrame ==
    Did("remove")
    => LET id == last.a
           p == last.pre.prev[id]
           n == last.pre.next[id]
       IN /\ skiplist_next = Unlinked(last.pre, id).next
          /\ skiplist_prev = Unlinked(last.pre, id).prev
          /\ skiplist_next[id] = n
          /\ skiplist_prev[id] = p
          /\ LinkWritesOf(last.tr)
                = {<<"set_skiplist_next", p>> : x \in {p} \ {None}}
                  \cup {<<"set_skiplist_prev", n>> : x \in {n} \ {None}}
          /\ parent_window = last.pre.parent
          /\ rev = "cur" => /\ win_focus = last.pre.wf
                             /\ surf_focus = last.pre.sf
                             /\ top_child = last.pre.top
                             /\ Len(last.tr) = Cardinality({p, n} \ {None})
                                                + (IF p = n /\ p # None
                                                   THEN 1 ELSE 0)

\* The focused window of the current revision was removed from between two
\* other windows.
C33_Witness ==
    /\ Did("remove")
    /\ rev = "cur"
    /\ last.pre.prev[last.a] \notin {None, last.a}
    /\ last.pre.next[last.a] \notin {None, last.a}
    /\ last.pre.prev[last.a] # last.pre.next[last.a]
    /\ last.pre.wf = last.a
    /\ skiplist_next # last.pre.next
    /\ skiplist_prev # last.pre.prev

\* C34: in the older revision skiplist_remove_window(id) on the focused
\* window moves the focus to the next window in the order (None when id had
\* no next), so that visible_windows() yields the previous sequence without
\* id; when id is not the focused window the focus is unchanged. The
\* sequences are compared where the previous one ends.
C34_RemoveFocusedOld ==
    (Did("remove") /\ rev = "old")
    => IF last.pre.wf = last.a
       THEN /\ win_focus = last.pre.next[last.a]
            /\ EndsWithin(last.pre, last.pre.wf, NumWin)
                  => visible_windows(Atmos)
                        = Without(visible_windows(last.pre), last.a)
       ELSE win_focus = last.pre.wf

\* C35: in the current revision focus_on(Some(s)), for a subsurface s whose
\* root window is the current window focus, returns at once: window focus,
\* surface focus and every skiplist pointer are unchanged and no leave or
\* enter is sent.
C35_SameRootShortCircuit ==
    (/\ Did("focus") /\ rev = "cur" /\ last.a # None
     /\ last.pre.parent[last.a] # None
     /\ last.pre.wf # None
     /\ get_root_window(last.pre, last.a) = last.pre.wf)
    => /\ win_focus = last.pre.wf
       /\ surf_focus = last.pre.sf
       /\ skiplist_next = last.pre.next
       /\ skiplist_prev = last.pre.prev
       /\ parent_window = last.pre.parent
       /\ top_child = last.pre.top
       /\ last.ev = << >>
       /\ last.tr = << >>

\* A subsurface of the focused root window was focused while the surface
\* focus was elsewhere.
C35_Witness ==
    /\ Did("focus") /\ rev = "cur" /\ last.a # None
    /\ last.pre.parent[last.a] = last.pre.wf
    /\ last.pre.wf # None
    /\ get_root_window(last.pre, last.a) = last.pre.wf
    /\ last.pre.sf # last.a
    /\ win_focus = last.pre.wf

\* The sub-steps of tr that are pointer enter or leave calls.
PointerCalls(tr) ==
    SelectSeq(tr, LAMBDA e : e[1] \in {"pointer_enter", "pointer_leave"})

\* C36: on a pointer move with no resize active, when the window under the
\* cursor differs from i_pointer_focus, leave goes to the old window (if
\* any) before enter goes to the new one (if any) and i_pointer_focus
\* becomes the new window; when it is the same, no enter or leave is sent;
\* with a resize active a move neither changes i_pointer_focus nor sends
\* enter, leave or motion.
C36_PointerFocusTracking ==
    Did("move")
    => LET old == last.self.i_pointer_focus
           new == last.a
           leave == IF old # None THEN << <<"pointer_leave", old>> >>
                    ELSE << >>
           enter == IF new # None THEN << <<"pointer_enter", new>> >>
                    ELSE << >>
       IN IF last.pre.rs # None
          THEN /\ i_pointer_focus = old
               /\ last.tr = << >>
               /\ last.ev = << >>
          ELSE IF new # old
          THEN /\ i_pointer_focus = new
               /\ PointerCalls(last.tr) = leave \o enter
               /\ PointerCalls(last.ev)
                     = SelectSeq(leave \o enter,
                                 LAMBDA e : e[2] \in last.seats)
          ELSE /\ i_pointer_focus = old
               /\ PointerCalls(last.tr) = << >>
               /\ PointerCalls(last.ev) = << >>

\* The pointer moved from one window to another, both with a seat, while no
\* resize was active.
C36_Witness ==
    /\ Did("move")
    /\ last.pre.rs = None
    /\ last.self.i_pointer_focus # None
    /\ last.a # None
    /\ last.a # last.self.i_pointer_focus
    /\ last.seats = {last.a, last.self.i_pointer_focus}
    /\ i_pointer_focus = last.a

----------------------------------------------------------------------------
(* Thundr: the recording protocol *)

\* How many Thundr calls a behaviour makes, and how many surfaces a
\* recording holds.
MaxCalls == 8
MaxDraws == 2

\* end_recording with a fault: the params are kept.
end_recording_keep(th) == [th_params |-> th, ret |-> "Ok"]

\* Thundr::begin_recording. swap is what get_next_swapchain_image returns,
\* frame what begin_recording_one_frame returns (read only if swap is Ok).
begin_recording(th, swap, frame) ==
    IF th.some
    THEN [th_params |-> th, ret |-> "RECORDING_ALREADY_IN_PROGRESS"]
    ELSE IF swap # "Ok" THEN [th_params |-> th, ret |-> swap]
    ELSE IF frame # "Ok" THEN [th_params |-> th, ret |-> frame]
    ELSE [th_params |-> [some |-> TRUE, draws |-> 0], ret |-> "Ok"]

\* Thundr::set_viewport. pipe is what the pipeline's set_viewport returns.
set_viewport(th, pipe) ==
    IF ~th.some
    THEN [th_params |-> th, ret |-> "RECORDING_NOT_IN_PROGRESS"]
    ELSE [th_params |-> th, ret |-> pipe]

\* Thundr::draw_surface: the pipeline records the surface.
draw_surface(th) ==
    IF ~th.some
    THEN [th_params |-> th, ret |-> "RECORDING_NOT_IN_PROGRESS"]
    ELSE [th_params |-> [th EXCEPT !.draws = @ + 1], ret |-> "Ok"]

\* Thundr::end_recording: th_params is None afterwards, whatever it was.
end_recording(th) == [th_params |-> NoParams, ret |-> "Ok"]

\* Thundr::present returns what the display returns.
present(th, disp) == [th_params |-> th, ret |-> disp]

\* The variables Thundr and Viewport calls leave alone.
compositor_vars ==
    <<rev, windows, skiplist_next, skiplist_prev, parent_window, top_child,
      win_focus, surf_focus, grabbed, resizing, ecs, client_ids,
      i_resize_diff, i_pointer_focus, hist>>

\* A Thundr call returned r: th is the th_params it started with.
ThundrReturn(op, r) ==
    /\ nops < MaxCalls
    /\ nops' = nops + 1
    /\ th_params' = r.th_params
    /\ last' = [op |-> op, a |-> None, b |-> None, pre |-> NoPre,
                 ev |-> << >>, tr |-> << >>, th |-> th_params,
                 ret |-> r.ret]
    /\ prior' = Forget(last)
    /\ UNCHANGED <<compositor_vars, viewport>>

BeginRecording ==
    \E swap \in {"Ok", "OUT_OF_DATE", "Err"}, frame \in {"Ok", "Err"} :
        /\ swap # "Ok" => frame = "Ok"
        /\ ThundrReturn("begin_recording",
                        begin_recording(th_params, swap, frame))

SetViewport ==
    \E pipe \in {"Ok", "Err"} :
        /\ ~th_params.some => pipe = "Ok"
        /\ ThundrReturn("set_viewport", set_viewport(th_params, pipe))

DrawSurface ==
    /\ th_params.draws < MaxDraws
    /\ ThundrReturn("draw_surface", draw_surface(th_params))

EndRecording == ThundrReturn("end_recording", end_recording(th_params))

Present ==
    \E disp \in {"Ok", "OUT_OF_DATE"} :
        ThundrReturn("present", present(th_params, disp))

\* An application calls the recording functions in any order.
NextThundr ==
    \/ BeginRecording
    \/ SetViewport
    \/ DrawSurface
    \/ EndRecording
    \/ Present

SpecThundr == Init /\ [][NextThundr]_vars

\* C38: begin_recording during a recording returns
\* RECORDING_ALREADY_IN_PROGRESS and the recording stays as it was;
\* set_viewport and draw_surface with no recording in progress return
\* RECORDING_NOT_IN_PROGRESS and start none; after end_recording no
\* recording is in progress, and the begin_recording that follows it is
\* never refused as already in progress: it starts a recording whenever the
\* display and the renderer deliver a frame.
C38_RecordingProtocol ==
    /\ (last.op = "begin_recording" /\ last.th.some)
           => /\ last.ret = "RECORDING_ALREADY_IN_PROGRESS"
              /\ th_params = last.th
    /\ (last.op \in {"set_viewport", "draw_surface"} /\ ~last.th.some)
           => /\ last.ret = "RECORDING_NOT_IN_PROGRESS"
              /\ th_params = NoParams
    /\ (last.op \in {"set_viewport", "draw_surface"} /\ last.th.some)
           => /\ last.ret # "RECORDING_NOT_IN_PROGRESS"
              /\ th_params.some
    /\ last.op = "end_recording"
           => /\ last.ret = "Ok"
              /\ th_params = NoParams
    /\ (last.op = "begin_recording" /\ prior.op = "end_recording")
           => /\ last.ret # "RECORDING_ALREADY_IN_PROGRESS"
              /\ last.ret = "Ok" <=> th_params.some

\* A second frame: after six calls a recording has ended and the next
\* begin_recording has started a new one.
C38_Witness ==
    /\ nops > 6
    /\ prior.op = "end_recording"
    /\ last.op = "begin_recording"
    /\ last.ret = "Ok"
    /\ th_params.some

----------------------------------------------------------------------------
(* Thundr: scrolling a Viewport *)

\* The scroll regions and the scroll amounts an application passes. The
\* values stay far from the limits of i32, so no subtraction overflows.
Regions == {1, 4}
Scrolls == {-1, 1, 3}

\* i32::clamp, defined for min <= max.
clamp(x, min, max) == IF x < min THEN min ELSE IF x > max THEN max ELSE x

\* Viewport::set_scroll_region
set_scroll_region(self, x, y) == [self EXCEPT !.scroll_region = <<x, y>>]

\* Viewport::update_scroll_amount. clamp panics when min > max; the
\* assignment of scroll_offset is the last statement, so a panic leaves
\* the viewport as it was.
update_scroll_amount(self, dx, dy) ==
    LET min_x == -1 * (self.scroll_region[1] - self.size[1])
        max_x == 0
        x_offset == self.scroll_offset[1] - dx
        min_y == -1 * (self.scroll_region[2] - self.size[2])
        max_y == 0
        y_offset == self.scroll_offset[2] - dy
    IN IF min_x > max_x \/ min_y > max_y
       THEN [self |-> self, ret |-> "panic"]
       ELSE [self |-> [self EXCEPT !.scroll_offset =
                                      <<clamp(x_offset, min_x, max_x),
                                        clamp(y_offset, min_y, max_y)>>],
             ret |-> "Ok"]

\* A Viewport call returned; a panic ends the behaviour.
ViewportReturn(op, x, y, r) ==
    /\ last.op \in {"update_scroll_amount"} => last.ret = "Ok"
    /\ nops < MaxCalls
    /\ nops' = nops + 1
    /\ viewport' = r.self
    /\ last' = [op |-> op, a |-> x, b |-> y, pre |-> NoPre,
                 ev |-> << >>, tr |-> << >>, self |-> viewport,
                 ret |-> r.ret]
    /\ prior' = Forget(last)
    /\ UNCHANGED <<compositor_vars, th_params>>

SetScrollRegion ==
    \E x \in Regions, y \in Regions :
        ViewportReturn("set_scroll_region", x, y,
                       [self |-> set_scroll_region(viewport, x, y),
                        ret |-> "Ok"])

UpdateScrollAmount ==
    \E dx \in Scrolls, dy \in Scrolls :
        ViewportReturn("update_scroll_amount", dx, dy,
                       update_scroll_amount(viewport, dx, dy))

NextViewport ==
    \/ SetScrollRegion
    \/ UpdateScrollAmount

\* Viewports of every size in Dims.
InitViewport == Start("viewport")

SpecViewport == InitViewport /\ [][NextViewport]_vars

\* Where update_scroll_amount(dx, dy) would move the scroll offset of self.
ScrollTarget(self, dx, dy) ==
    <<self.scroll_offset[1] - dx, self.scroll_offset[2] - dy>>

\* The offset t is within the scroll region of self: each coordinate is in
\* [-(scroll_region - size), 0].
InScrollRegion(self, t) ==
    \A i \in 1..2 :
        /\ -1 * (self.scroll_region[i] - self.size[i]) <= t[i]
        /\ t[i] <= 0

\* C39: update_scroll_amount(dx, dy) leaves scroll_offset unchanged when
\* the move would leave the scroll region and moves it by exactly
\* (-dx, -dy) otherwise, and it returns normally on a viewport whose
\* scroll region was set with set_scroll_region.
C39_ScrollBounds ==
    last.op = "update_scroll_amount"
        => /\ prior.op = "set_scroll_region" => last.ret = "Ok"
           /\ last.ret = "Ok"
                 => viewport.scroll_offset =
                        IF InScrollRegion(last.self,
                                          ScrollTarget(last.self, last.a,
                                                       last.b))
                        THEN ScrollTarget(last.self, last.a, last.b)
                        ELSE last.self.scroll_offset

====
